---- MODULE Spec2Model ----
(***************************************************************************)
(* Model of two units of the story editor:                                 *)
(*   - app/checklist/utils/isLinkBelowLimit.js, the danger-zone predicate  *)
(*   - components/canvas/gridview/index.js, the grid view (thumbnail size  *)
(*     control, reorder handler, rendering of items and separators)        *)
(*                                                                         *)
(* Numbers of the predicate are fixed-point: lengths are integers in units *)
(* of 1/4000, sines and cosines are integers in units of 1/1000, angles    *)
(* are whole degrees that are multiples of 15, and an angle in radians is  *)
(* held in units of pi/180.                                                *)
(***************************************************************************)
EXTENDS Integers, Sequences, FiniteSets, TLC

VARIABLES
    page,              \* the imported page constants, fixed for the run
    element,           \* the element the caller constructed
    ret,               \* the outcome of that call, a JS value
    points,            \* the corner values that call computed, <<>> if none
    pc,                \* "idle" before the call, "done" after it
    zoomLevel,         \* GridView's useState(2)
    pages,             \* state.pages of useStory(), as page ids
    currentPageIndex,  \* state.currentPageIndex of useStory()
    dispatched,        \* store actions invoked by the handler, not yet reduced
    lastEvent,         \* the last (oldPos, newPos) the reorder wrapper reported
    lastMoved,         \* pageId of the last arrangePage call, 0 if none
    requestedCurrent,  \* pageId of the last setCurrentPage call, 0 if none
    lastClick          \* the last thumbnail-size input and the value before it

linkVars == <<page, element, ret, points, pc>>
gridVars == <<zoomLevel, pages, currentPageIndex, dispatched, lastEvent,
              lastMoved, requestedCurrent, lastClick>>
vars == <<linkVars, gridVars>>

(***************************************************************************)
(* Bounds of the model.                                                    *)
(***************************************************************************)
MaxTurns == 1
MaxPages == 3

(***************************************************************************)
(* JS values: the value of an expression is a boolean, a number or         *)
(* undefined.                                                              *)
(***************************************************************************)
Undefined == [type |-> "undefined", b |-> FALSE, n |-> 0]
Num(n) == [type |-> "number", b |-> FALSE, n |-> n]
Bool(b) == [type |-> "boolean", b |-> b, n |-> 0]

\* ToBoolean of a JS value (NaN does not arise: every number here is finite).
ToBoolean(v) ==
    CASE v.type = "boolean" -> v.b
      [] v.type = "number" -> v.n # 0
      [] OTHER -> FALSE

\* ToNumber of a boolean, as the relational operators apply it.
ToNumber(b) == IF b THEN 1 ELSE 0

(***************************************************************************)
(* Fixed-point arithmetic.                                                 *)
(***************************************************************************)
Fx(n) == n * 4000

\* a / n for a nonzero integer n; exact on every value the model divides.
Div(a, n) == IF n < 0 THEN (0 - a) \div (0 - n) ELSE a \div n

\* a * t for a length a and a sine or cosine t.
Mul(a, t) == (a * t) \div 1000

\* Math.PI in units of pi/180.
MathPI == 180

\* sin at 0, 15, ..., 90 degrees.
SinTable == <<0, 259, 500, 707, 866, 966, 1000>>

MathSin(radians) ==
    LET r == radians % 360
    IN  CASE r <= 90 -> SinTable[(r \div 15) + 1]
          [] r <= 180 -> SinTable[((180 - r) \div 15) + 1]
          [] r <= 270 -> 0 - SinTable[((r - 180) \div 15) + 1]
          [] OTHER -> 0 - SinTable[((360 - r) \div 15) + 1]

MathCos(radians) == MathSin(radians + 90)

(***************************************************************************)
(* isLinkBelowLimit.js                                                     *)
(***************************************************************************)
FULLBLEED_HEIGHT ==
    2 * Div(page.PAGE_WIDTH * 2000 * page.FULLBLEED_RATIO.den,
            page.FULLBLEED_RATIO.num)

DANGER_ZONE_HEIGHT == Div(FULLBLEED_HEIGHT - Fx(page.PAGE_HEIGHT), 2)

\* Faulty variant: the bottom-left corner takes the bottom-right's width offset.
getYCoordinatesByAngle_CopiedCorner(el) ==
    LET radians == Div(el.rotationAngle * MathPI, 180)
        y == Fx(el.y)
        width == Fx(el.width)
        height == Fx(el.height)
    IN  << y + height + Mul(Div(width, -2), MathSin(radians))
                      + Mul(Div(height, -2), MathCos(radians)),
           y + height + Mul(Div(width, 2), MathSin(radians))
                      + Mul(Div(height, -2), MathCos(radians)),
           y + height + Mul(Div(width, 2), MathSin(radians))
                      + Mul(Div(height, 2), MathCos(radians)),
           y + height + Mul(Div(width, 2), MathSin(radians))
                      + Mul(Div(height, 2), MathCos(radians)) >>

\* Faulty variant: the sine is left out of the upper-left corner's width term.
getYCoordinatesByAngle_NoSin(el) ==
    LET radians == Div(el.rotationAngle * MathPI, 180)
        y == Fx(el.y)
        width == Fx(el.width)
        height == Fx(el.height)
    IN  << y + height + Mul(Div(width, -2), Div(radians * 3142, 180))
                      + Mul(Div(height, -2), MathCos(radians)),
           y + height + Mul(Div(width, 2), MathSin(radians))
                      + Mul(Div(height, -2), MathCos(radians)),
           y + height + Mul(Div(width, 2), MathSin(radians))
                      + Mul(Div(height, 2), MathCos(radians)),
           y + height + Mul(Div(width, -2), MathSin(radians))
                      + Mul(Div(height, 2), MathCos(radians)) >>

\* Faulty variant: sine and cosine are exchanged.
getYCoordinatesByAngle_CosSinSwapped(el) ==
    LET radians == Div(el.rotationAngle * MathPI, 180)
        y == Fx(el.y)
        width == Fx(el.width)
        height == Fx(el.height)
    IN  << y + height + Mul(Div(width, -2), MathCos(radians))
                      + Mul(Div(height, -2), MathSin(radians)),
           y + height + Mul(Div(width, 2), MathCos(radians))
                      + Mul(Div(height, -2), MathSin(radians)),
           y + height + Mul(Div(width, 2), MathCos(radians))
                      + Mul(Div(height, 2), MathSin(radians)),
           y + height + Mul(Div(width, -2), MathCos(radians))
                      + Mul(Div(height, 2), MathSin(radians)) >>

\* Faulty variant: the offsets are added to y, the height is not folded in.
getYCoordinatesByAngle_FromY(el) ==
    LET radians == Div(el.rotationAngle * MathPI, 180)
        y == Fx(el.y)
        width == Fx(el.width)
        height == Fx(el.height)
    IN  << y + Mul(Div(width, -2), MathSin(radians))
             + Mul(Div(height, -2), MathCos(radians)),
           y + Mul(Div(width, 2), MathSin(radians))
             + Mul(Div(height, -2), MathCos(radians)),
           y + Mul(Div(width, 2), MathSin(radians))
             + Mul(Div(height, 2), MathCos(radians)),
           y + Mul(Div(width, -2), MathSin(radians))
             + Mul(Div(height, 2), MathCos(radians)) >>

getYCoordinatesByAngle(el) ==
    LET radians == Div(el.rotationAngle * MathPI, 180)
        y == Fx(el.y)
        width == Fx(el.width)
        height == Fx(el.height)
    IN  << \* Upper left
           y + height + Mul(Div(width, -2), MathSin(radians))
                      + Mul(Div(height, -2), MathCos(radians)),
           \* Upper right
           y + height + Mul(Div(width, 2), MathSin(radians))
                      + Mul(Div(height, -2), MathCos(radians)),
           \* Bottom right
           y + height + Mul(Div(width, 2), MathSin(radians))
                      + Mul(Div(height, 2), MathCos(radians)),
           \* Bottom left
           y + height + Mul(Div(width, -2), MathSin(radians))
                      + Mul(Div(height, 2), MathCos(radians)) >>

\* element.link?.url?.length
LinkUrlLength(el) ==
    IF el.link = <<>> THEN Undefined
    ELSE IF el.link[1].url = <<>> THEN Undefined
    ELSE Num(Len(el.link[1].url[1]))

\* Array.prototype.find with the predicate (y) => y + DANGER_ZONE_HEIGHT > limit:
\* the first value that satisfies it, or undefined.
RECURSIVE Find(_, _, _)
Find(ps, i, limit) ==
    IF i > Len(ps) THEN Undefined
    ELSE IF ps[i] + DANGER_ZONE_HEIGHT > limit THEN Num(ps[i])
    ELSE Find(ps, i + 1, limit)

\* Faulty variant: the guard is (length > 0), the negation lost.
isLinkBelowLimit_NoNegation(el) ==
    LET length == LinkUrlLength(el)
    IN  IF length.type = "number" /\ length.n > 0
        THEN [ret |-> Bool(FALSE), points |-> <<>>]
        ELSE LET limit == Div(FULLBLEED_HEIGHT * 8, 10)
                 ps == getYCoordinatesByAngle(el)
             IN  [ret |-> Bool(ToBoolean(Find(ps, 1, limit))), points |-> ps]

\* Faulty variant: the found value is returned without Boolean().
isLinkBelowLimit_NoBoolean(el) ==
    LET length == LinkUrlLength(el)
    IN  IF ToNumber(~ToBoolean(length)) > 0
        THEN [ret |-> Bool(FALSE), points |-> <<>>]
        ELSE LET limit == Div(FULLBLEED_HEIGHT * 8, 10)
                 ps == getYCoordinatesByAngle(el)
             IN  [ret |-> Find(ps, 1, limit), points |-> ps]

\* The outcome of isLinkBelowLimit(el) and the corner values it computed.
\* The guard is (!length) > 0: `!` binds tighter than `>`.
isLinkBelowLimit(el) ==
    LET length == LinkUrlLength(el)
    IN  IF ToNumber(~ToBoolean(length)) > 0
        THEN [ret |-> Bool(FALSE), points |-> <<>>]
        ELSE LET limit == Div(FULLBLEED_HEIGHT * 8, 10)
                 ps == getYCoordinatesByAngle(el)
             IN  [ret |-> Bool(ToBoolean(Find(ps, 1, limit))), points |-> ps]

(***************************************************************************)
(* Inputs of the predicate.                                                *)
(***************************************************************************)
Angles == {15 * k : k \in (0 - 24 * MaxTurns) .. (24 * MaxTurns)}

Links == { <<>>,
           <<[url |-> <<>>]>>,
           <<[url |-> <<"">>]>>,
           <<[url |-> <<"https://example.com">>]>> }

Elements ==
    [y : {-10, 0, 10, 500}, width : {0, 20, 100}, height : {0, 20, 100},
     rotationAngle : Angles, link : Links]

\* Page constants of a build: positive page width and height.
PageGeometries ==
    [PAGE_WIDTH : {9, 412}, PAGE_HEIGHT : {12, 618, 732},
     FULLBLEED_RATIO : {[num |-> 9, den |-> 16]}]

\* Any value of the page constants, a page height below zero included.
AnyPageGeometries ==
    [PAGE_WIDTH : {9, 412}, PAGE_HEIGHT : {-16, 12, 618, 732},
     FULLBLEED_RATIO : {[num |-> 9, den |-> 16]}]

InitLink ==
    /\ element \in Elements
    /\ ret = Undefined
    /\ points = <<>>
    /\ pc = "idle"

InitGrid ==
    /\ zoomLevel = 2
    /\ pages = <<>>
    /\ currentPageIndex = 0
    /\ dispatched = <<>>
    /\ lastEvent = [oldPos |-> -1, newPos |-> -1]
    /\ lastMoved = 0
    /\ requestedCurrent = 0
    /\ lastClick = [input |-> "none", value |-> 2]

\* The caller evaluates the predicate on the element it constructed.
Call ==
    /\ pc = "idle"
    /\ ret' = isLinkBelowLimit(element).ret
    /\ points' = isLinkBelowLimit(element).points
    /\ pc' = "done"
    /\ UNCHANGED <<page, element, gridVars>>

Init == page \in PageGeometries /\ InitLink /\ InitGrid
Next == Call
Spec == Init /\ [][Next]_vars

ParamInit == page \in AnyPageGeometries /\ InitLink /\ InitGrid
ParamSpec == ParamInit /\ [][Next]_vars

(***************************************************************************)
(* gridview/index.js: ThumbnailSizeControl                                 *)
(***************************************************************************)
max == 3
min == 1
step == 1

MathMin(a, b) == IF a < b THEN a ELSE b
MathMax(a, b) == IF a > b THEN a ELSE b

\* The value updateRangeValue(addition) hands to onChange.
updateRangeValue(value, addition) ==
    MathMin(max, MathMax(min, value + addition))

\* Faulty variant: the decrease button is disabled at the other end.
DecreaseDisabled_AtMax(value) == value = max

\* disabled={value === min} of the decrease button.
DecreaseDisabled(value) == value = min

\* disabled={value === max} of the increase button.
IncreaseDisabled(value) == value = max

\* A click on the decrease button; a disabled button takes no click.
ClickDecrease ==
    /\ ~DecreaseDisabled(zoomLevel)
    /\ zoomLevel' = updateRangeValue(zoomLevel, 0 - step)
    /\ lastClick' = [input |-> "decrease", value |-> zoomLevel]
    /\ UNCHANGED <<pages, currentPageIndex, dispatched, lastEvent, lastMoved,
                   requestedCurrent, linkVars>>

\* A click on the increase button.
ClickIncrease ==
    /\ ~IncreaseDisabled(zoomLevel)
    /\ zoomLevel' = updateRangeValue(zoomLevel, step)
    /\ lastClick' = [input |-> "increase", value |-> zoomLevel]
    /\ UNCHANGED <<pages, currentPageIndex, dispatched, lastEvent, lastMoved,
                   requestedCurrent, linkVars>>

\* The range input reports a value of min..max in steps of step.
SliderChange(v) ==
    /\ zoomLevel' = v
    /\ lastClick' = [input |-> "slider", value |-> zoomLevel]
    /\ UNCHANGED <<pages, currentPageIndex, dispatched, lastEvent, lastMoved,
                   requestedCurrent, linkVars>>

(***************************************************************************)
(* gridview/index.js: GridView                                             *)
(***************************************************************************)
PageIds == 1..MaxPages

NoEvent == [oldPos |-> -1, newPos |-> -1]

\* Faulty variant: the page at the new position is taken.
HandlerCalls_PageAtNewPos(ps, oldPos, newPos) ==
    LET pageId == ps[MathMin(newPos, Len(ps) - 1) + 1].id
    IN  << [action |-> "arrangePage", pageId |-> pageId, position |-> newPos],
           [action |-> "setCurrentPage", pageId |-> pageId] >>

\* The store actions onPositionChange(oldPos, newPos) invokes, in order.
HandlerCalls(ps, oldPos, newPos) ==
    LET pageId == ps[oldPos + 1].id
    IN  << [action |-> "arrangePage", pageId |-> pageId, position |-> newPos],
           [action |-> "setCurrentPage", pageId |-> pageId] >>

\* The pageId of the last call of `action` in calls, or prev if there is none.
RECURSIVE LastPageId(_, _, _)
LastPageId(calls, action, prev) ==
    IF calls = <<>> THEN prev
    ELSE LastPageId(Tail(calls), action,
                    IF Head(calls).action = action THEN Head(calls).pageId
                    ELSE prev)

\* The reorder wrapper reports a move of the item at oldPos to the
\* separator at newPos.
OnPositionChange(oldPos, newPos) ==
    /\ dispatched = <<>>
    /\ oldPos \in 0..(Len(pages) - 1)
    /\ newPos \in 0..Len(pages)
    /\ dispatched' = HandlerCalls(pages, oldPos, newPos)
    /\ lastEvent' = [oldPos |-> oldPos, newPos |-> newPos]
    /\ lastMoved' = LastPageId(dispatched', "arrangePage", lastMoved)
    /\ requestedCurrent' =
           LastPageId(dispatched', "setCurrentPage", requestedCurrent)
    /\ UNCHANGED <<zoomLevel, pages, currentPageIndex, lastClick, linkVars>>

\* The orders of the pages ps.
Orders(ps) ==
    { qs \in [1..Len(ps) -> {ps[i] : i \in 1..Len(ps)}] :
        \A i, j \in 1..Len(ps) : i # j => qs[i] # qs[j] }

\* The story store reduces the invoked actions and the view renders again:
\* the pages come back in some order with some current page index.
StoreReduce ==
    /\ dispatched # <<>>
    /\ dispatched' = <<>>
    /\ lastEvent' = NoEvent
    /\ pages' \in Orders(pages)
    /\ currentPageIndex' \in 0..(Len(pages) - 1)
    /\ UNCHANGED <<zoomLevel, lastMoved, requestedCurrent, lastClick, linkVars>>

\* Elsewhere in the editor a page is added to the story.
AddPage(id, at) ==
    /\ dispatched = <<>>
    /\ Len(pages) < MaxPages
    /\ \A i \in 1..Len(pages) : pages[i].id # id
    /\ at \in 0..Len(pages)
    /\ pages' = SubSeq(pages, 1, at) \o <<[id |-> id]>>
                    \o SubSeq(pages, at + 1, Len(pages))
    /\ currentPageIndex' = at
    /\ UNCHANGED <<zoomLevel, dispatched, lastEvent, lastMoved,
                   requestedCurrent, lastClick, linkVars>>

\* Elsewhere in the editor a page is deleted from the story.
DeletePage(at) ==
    /\ dispatched = <<>>
    /\ at \in 0..(Len(pages) - 1)
    /\ pages' = SubSeq(pages, 1, at) \o SubSeq(pages, at + 2, Len(pages))
    /\ currentPageIndex' \in {MathMax(0, at - 1), MathMin(at, Len(pages) - 1)}
    /\ UNCHANGED <<zoomLevel, dispatched, lastEvent, lastMoved,
                   requestedCurrent, lastClick, linkVars>>

\* Faulty variant: every separator after a page takes the page's own index.
PagePreviewContainer_SeparatorAtIndex(index, cpi) ==
    (IF index = 0
     THEN <<[kind |-> "separator", position |-> 0, isActive |-> FALSE]>>
     ELSE <<>>)
    \o <<[kind |-> "item", position |-> index, isActive |-> (index = cpi)]>>
    \o <<[kind |-> "separator", position |-> index, isActive |-> FALSE]>>

\* What pages.map renders for the page at index: the leading separator of
\* the first page, the reorderable item with its preview, the separator
\* after it.
PagePreviewContainer(index, cpi) ==
    (IF index = 0
     THEN <<[kind |-> "separator", position |-> 0, isActive |-> FALSE]>>
     ELSE <<>>)
    \o <<[kind |-> "item", position |-> index, isActive |-> (index = cpi)]>>
    \o <<[kind |-> "separator", position |-> index + 1, isActive |-> FALSE]>>

\* The children of the reorder wrapper, one container per page.
Rendered == [k \in 1..Len(pages) |-> PagePreviewContainer(k - 1, currentPageIndex)]

GridInit ==
    /\ InitGrid
    /\ page = [PAGE_WIDTH |-> 412, PAGE_HEIGHT |-> 618,
               FULLBLEED_RATIO |-> [num |-> 9, den |-> 16]]
    /\ element = [y |-> 0, width |-> 0, height |-> 0, rotationAngle |-> 0,
                  link |-> <<>>]
    /\ ret = Undefined
    /\ points = <<>>
    /\ pc = "idle"

GridNext ==
    \/ ClickDecrease
    \/ ClickIncrease
    \/ \E v \in min..max : SliderChange(v)
    \/ \E oldPos \in 0..(MaxPages - 1), newPos \in 0..MaxPages :
          OnPositionChange(oldPos, newPos)
    \/ StoreReduce
    \/ \E id \in PageIds, at \in 0..MaxPages : AddPage(id, at)
    \/ \E at \in 0..(MaxPages - 1) : DeletePage(at)

GridSpec == GridInit /\ [][GridNext]_vars

(***************************************************************************)
(* Properties of isLinkBelowLimit.                                         *)
(***************************************************************************)
\* The element carries a link whose url is a non-empty string.
HasUrl(el) ==
    /\ el.link # <<>>
    /\ el.link[1].url # <<>>
    /\ el.link[1].url[1] # ""

Limit == Div(FULLBLEED_HEIGHT * 8, 10)

\* Some corner value of ps, with the danger zone height added, exceeds the limit.
AnyCornerExceeds(ps) ==
    \E i \in 1..Len(ps) : ps[i] + DANGER_ZONE_HEIGHT > Limit

WithAngle(el, a) == [el EXCEPT !.rotationAngle = a]

\* C1: for a link-bearing element and any page constants, the result is true
\* exactly when at least one of the four corner values plus dangerZoneHeight
\* exceeds the limit, whichever corner is first and whatever its value.
C1_AnyCornerDecides ==
    (pc = "done" /\ HasUrl(element)) =>
        /\ Len(points) = 4
        /\ ret = Bool(AnyCornerExceeds(points))

\* C2: without a link, without a url, or with the empty url the result is
\* false wherever the element lies, and no corner value is computed.
C2_NoLinkIsFalse ==
    (pc = "done" /\ ~HasUrl(element)) =>
        /\ ret = Bool(FALSE)
        /\ points = <<>>

C2_Witness ==
    /\ pc = "done"
    /\ element.link = <<[url |-> <<"">>]>>
    /\ element.y = 500
    /\ element.height = 100
    /\ AnyCornerExceeds(getYCoordinatesByAngle(element))
    /\ ret = Bool(FALSE)

\* The values of the unrotated element: y + height/2 and y + 1.5 * height.
TopY(el) == Fx(el.y) + Div(Fx(el.height), 2)
BottomY(el) == Fx(el.y) + Div(3 * Fx(el.height), 2)

UnrotatedShape(el, ps) ==
    /\ Len(ps) = 4
    /\ ps[1] = TopY(el) /\ ps[2] = TopY(el)
    /\ ps[3] = BottomY(el) /\ ps[4] = BottomY(el)

UnrotatedResult ==
    (pc = "done" /\ HasUrl(element)) =>
        ret = Bool(\/ TopY(element) + DANGER_ZONE_HEIGHT > Limit
                   \/ BottomY(element) + DANGER_ZONE_HEIGHT > Limit)

\* C3 as stated: at rotationAngle = 0 the four corner values are exactly two
\* distinct values, y + height/2 twice and y + 1.5 * height twice, for any
\* height >= 0, and the result equals the direct unrotated computation.
C3_ExactlyTwoValues ==
    (pc = "done" /\ element.rotationAngle = 0) =>
        LET ps == getYCoordinatesByAngle(element)
        IN  /\ UnrotatedShape(element, ps)
            /\ Cardinality({ps[i] : i \in 1..4}) = 2
            /\ UnrotatedResult

\* C3 as amended: at rotationAngle = 0 both top corners are y + height/2 and
\* both bottom corners y + 1.5 * height, two distinct values when height > 0
\* and a single value when height = 0, and the result equals the direct
\* unrotated computation.
C3_TwoValuesUnlessFlat ==
    (pc = "done" /\ element.rotationAngle = 0) =>
        LET ps == getYCoordinatesByAngle(element)
        IN  /\ UnrotatedShape(element, ps)
            /\ Cardinality({ps[i] : i \in 1..4}) =
                   (IF element.height > 0 THEN 2 ELSE 1)
            /\ UnrotatedResult

C3_Witness ==
    /\ pc = "done"
    /\ element.rotationAngle = 0
    /\ element.height = 0
    /\ HasUrl(element)
    /\ points = <<Fx(element.y), Fx(element.y), Fx(element.y), Fx(element.y)>>
    /\ element.y = 500
    /\ page.PAGE_WIDTH = 412
    /\ page.PAGE_HEIGHT = 732
    /\ ret = Bool(FALSE)

\* C4: the result for rotationAngle and for rotationAngle + 360 is the same.
C4_Periodic360 ==
    pc = "done" =>
        ret = isLinkBelowLimit(WithAngle(element, element.rotationAngle + 360)).ret

C4_Witness ==
    /\ pc = "done"
    /\ HasUrl(element)
    /\ element.rotationAngle = -75
    /\ ret = Bool(TRUE)
    /\ ~isLinkBelowLimit(WithAngle(element, 0)).ret.b

\* C5: the outcome is always one of the two booleans, degenerate elements
\* included.
C5_AlwaysBoolean ==
    pc = "done" => ret \in {Bool(TRUE), Bool(FALSE)}

C5_Witness ==
    /\ pc = "done"
    /\ element.width = 0
    /\ element.height = 0
    /\ element.rotationAngle < 0
    /\ element.y < 0
    /\ HasUrl(element)
    /\ ret = Bool(FALSE)

\* The local offsets of the corners, doubled: upper-left, upper-right,
\* bottom-right, bottom-left.
CornerOffsets(el) ==
    << <<0 - el.width, 0 - el.height>>, <<el.width, 0 - el.height>>,
       <<el.width, el.height>>, <<0 - el.width, el.height>> >>

\* C6: getYCoordinatesByAngle yields four values in the order upper-left,
\* upper-right, bottom-right, bottom-left, each y + height + dx * sin + dy * cos;
\* at 90 degrees they are y+height-w/2, y+height+w/2, y+height+w/2,
\* y+height-w/2, and at 180 degrees the top and bottom values of 0 degrees
\* are exchanged.
C6_CornerFormula ==
    LET ps == getYCoordinatesByAngle(element)
        c == Fx(element.y) + Fx(element.height)
        a == element.rotationAngle
        half == Div(Fx(element.width), 2)
    IN  /\ Len(ps) = 4
        /\ \A i \in 1..4 :
              ps[i] = c + 2 * CornerOffsets(element)[i][1] * MathSin(a)
                        + 2 * CornerOffsets(element)[i][2] * MathCos(a)
        /\ a = 90 => ps = <<c - half, c + half, c + half, c - half>>
        /\ a = 180 => ps = <<BottomY(element), BottomY(element),
                             TopY(element), TopY(element)>>
        /\ (pc = "done" /\ HasUrl(element)) => points = ps

C6_Witness ==
    /\ pc = "done"
    /\ HasUrl(element)
    /\ element.rotationAngle = 30
    /\ element.width = 100
    /\ element.height = 20
    /\ element.y = 10
    /\ points = << Fx(30) - 100000 - 34640, Fx(30) + 100000 - 34640,
                   Fx(30) + 100000 + 34640, Fx(30) - 100000 + 34640 >>

\* C10: when dangerZoneHeight <= limit, the result for rotationAngle and for
\* rotationAngle + 180 is the same for a link-bearing element; the corner for
\* offset (dx, dy) at the larger angle is the corner for (-dx, -dy) at the
\* smaller one, so only the order of the four values changes.
C10_HalfTurn ==
    LET turned == WithAngle(element, element.rotationAngle + 180)
        ps == getYCoordinatesByAngle(element)
        qs == getYCoordinatesByAngle(turned)
    IN  /\ qs = <<ps[3], ps[4], ps[1], ps[2]>>
        /\ (pc = "done" /\ HasUrl(element) /\ DANGER_ZONE_HEIGHT <= Limit) =>
              ret = isLinkBelowLimit(turned).ret

C10_Witness ==
    /\ pc = "done"
    /\ HasUrl(element)
    /\ DANGER_ZONE_HEIGHT <= Limit
    /\ element.rotationAngle = 45
    /\ element.width = 100
    /\ element.height = 20
    /\ ret = Bool(TRUE)
    /\ points[1] + DANGER_ZONE_HEIGHT <= Limit
    /\ points[3] + DANGER_ZONE_HEIGHT > Limit

(***************************************************************************)
(* Properties of the grid view.                                            *)
(***************************************************************************)
\* C7: a reported position change (oldPos, newPos) invokes arrangePage once
\* with the id of the page at oldPos and position newPos, then setCurrentPage
\* once with the same id, and nothing else; so the page requested as current
\* is the page moved last.
C7_ArrangeThenSetCurrent ==
    /\ dispatched # <<>> =>
          /\ Len(dispatched) = 2
          /\ dispatched[1] = [action |-> "arrangePage",
                              pageId |-> pages[lastEvent.oldPos + 1].id,
                              position |-> lastEvent.newPos]
          /\ dispatched[2] = [action |-> "setCurrentPage",
                              pageId |-> pages[lastEvent.oldPos + 1].id]
          /\ lastMoved = pages[lastEvent.oldPos + 1].id
    /\ requestedCurrent = lastMoved

C7_Witness ==
    /\ Len(pages) = 3
    /\ lastEvent = [oldPos |-> 2, newPos |-> 0]
    /\ pages[3].id = 1
    /\ pages[1].id = 2
    /\ dispatched # <<>>
    /\ requestedCurrent = 1

\* C8: the zoom level starts at 2 and is always 1, 2 or 3; a decrease click
\* yields max(1, value - 1), an increase click min(3, value + 1); the decrease
\* button is disabled exactly at 1 and the increase button exactly at 3, so a
\* click on an enabled button changes the value by exactly one step.
C8_ZoomInRange ==
    /\ zoomLevel \in {1, 2, 3}
    /\ lastClick.input = "none" => zoomLevel = 2
    /\ DecreaseDisabled(zoomLevel) <=> zoomLevel = 1
    /\ IncreaseDisabled(zoomLevel) <=> zoomLevel = 3
    /\ lastClick.input = "decrease" =>
          /\ zoomLevel = MathMax(1, lastClick.value - 1)
          /\ zoomLevel = lastClick.value - 1
    /\ lastClick.input = "increase" =>
          /\ zoomLevel = MathMin(3, lastClick.value + 1)
          /\ zoomLevel = lastClick.value + 1

C8_Witness ==
    /\ lastClick = [input |-> "decrease", value |-> 2]
    /\ zoomLevel = 1
    /\ DecreaseDisabled(zoomLevel)
    /\ ~ENABLED ClickDecrease
    /\ ENABLED ClickIncrease

RECURSIVE Flatten(_)
Flatten(ss) == IF ss = <<>> THEN <<>> ELSE Head(ss) \o Flatten(Tail(ss))

IsItem(node) == node.kind = "item"
IsSeparator(node) == node.kind = "separator"

\* C9: N pages render N reorderable items with positions 0..N-1 in page
\* order and, when N >= 1, N+1 separators with positions exactly 0..N, each
\* once: position 0 before the first page only, position i+1 after page i;
\* nothing when N = 0. The active previews are those whose index is
\* currentPageIndex: at most one, and exactly one when 0 <= index < N.
C9_ItemsAndSeparators ==
    LET N == Len(pages)
        nodes == Flatten(Rendered)
        items == SelectSeq(nodes, IsItem)
        seps == SelectSeq(nodes, IsSeparator)
        active == {i \in 1..Len(items) : items[i].isActive}
    IN  /\ Len(Rendered) = N
        /\ Len(items) = N
        /\ \A i \in 1..N : items[i].position = i - 1
        /\ N >= 1 => /\ Len(seps) = N + 1
                     /\ \A i \in 1..(N + 1) : seps[i].position = i - 1
                     /\ [i \in 1..Len(Rendered[1]) |-> Rendered[1][i].kind]
                            = <<"separator", "item", "separator">>
        /\ \A k \in 2..N :
              /\ [i \in 1..Len(Rendered[k]) |-> Rendered[k][i].kind]
                     = <<"item", "separator">>
              /\ Rendered[k][2].position = Rendered[k][1].position + 1
        /\ N = 0 => nodes = <<>>
        /\ Cardinality(active) <= 1
        /\ active = {i \in 1..N : i - 1 = currentPageIndex}
        /\ (0 <= currentPageIndex /\ currentPageIndex < N) =>
              Cardinality(active) = 1

C9_Witness ==
    /\ Len(pages) = 3
    /\ currentPageIndex = 1
    /\ Len(Flatten(Rendered)) = 7
    /\ Flatten(Rendered)[4] = [kind |-> "item", position |-> 1, isActive |-> TRUE]
    /\ Flatten(Rendered)[7] =
           [kind |-> "separator", position |-> 3, isActive |-> FALSE]

====
